---- MODULE Spec2Model ----
(***************************************************************************)
(* School registry: the create-school and list-schools handlers of         *)
(* src/src/controllers/schoolController.js with the validators and the     *)
(* haversine distance they call.                                           *)
(*                                                                         *)
(* Text is a sequence of one-character strings.  A number is an integer    *)
(* counting 10^-5 units (Scale), or NaN.  A raw JSON / query value is a     *)
(* record tagged with its JavaScript type.                                 *)
(***************************************************************************)
EXTENDS Integers, Sequences, FiniteSets, TLC

VARIABLES store, padSpace, pc, req, validation, res, queried, fetched, overlapped

vars == <<store, padSpace, pc, req, validation, res, queried, fetched, overlapped>>

\* ------------------------------------------------------------------ bounds

\* Number of request slots of the create-school model.
NumReq == 2

\* Largest number of stored rows in the list-schools model.
MaxSchools == 3

\* ------------------------------------------------------------ numbers, text

\* Fixed-point resolution: 5 decimal places.
Scale == 10 * 10 * 10 * 10 * 10

\* A JavaScript number: finite (v counts 1/Scale units) or NaN.
Fin(n) == [fin |-> TRUE, v |-> n]
NaN == [fin |-> FALSE]

Digits == {"0", "1", "2", "3", "4", "5", "6", "7", "8", "9"}

DigitVal(c) ==
    CASE c = "0" -> 0 [] c = "1" -> 1 [] c = "2" -> 2 [] c = "3" -> 3
      [] c = "4" -> 4 [] c = "5" -> 5 [] c = "6" -> 6 [] c = "7" -> 7
      [] c = "8" -> 8 [] c = "9" -> 9

DigitChar(d) ==
    CASE d = 0 -> "0" [] d = 1 -> "1" [] d = 2 -> "2" [] d = 3 -> "3"
      [] d = 4 -> "4" [] d = 5 -> "5" [] d = 6 -> "6" [] d = 7 -> "7"
      [] d = 8 -> "8" [] d = 9 -> "9"

RECURSIVE TrimStart(_)
TrimStart(s) ==
    IF s # <<>> /\ Head(s) = " " THEN TrimStart(Tail(s)) ELSE s

RECURSIVE TrimEnd(_)
TrimEnd(s) ==
    IF s # <<>> /\ s[Len(s)] = " " THEN TrimEnd(SubSeq(s, 1, Len(s) - 1)) ELSE s

\* String.prototype.trim
Trim(s) == TrimEnd(TrimStart(s))

\* The longest prefix of s made of decimal digits.
RECURSIVE DigitPrefix(_)
DigitPrefix(s) ==
    IF s # <<>> /\ Head(s) \in Digits
    THEN <<Head(s)>> \o DigitPrefix(Tail(s))
    ELSE <<>>

\* The value of a digit sequence read as an integer.
RECURSIVE DigitsValue(_)
DigitsValue(ds) ==
    IF ds = <<>> THEN 0
    ELSE 10 * DigitsValue(SubSeq(ds, 1, Len(ds) - 1)) + DigitVal(ds[Len(ds)])

\* The value of a fraction's digits in units of 1/Scale: digit i weighs
\* Scale / 10^i; digits beyond the resolution weigh nothing.
RECURSIVE FracValue(_, _)
FracValue(ds, weight) ==
    IF ds = <<>> \/ weight = 0 THEN 0
    ELSE DigitVal(Head(ds)) * weight + FracValue(Tail(ds), weight \div 10)

\* parseFloat: skips leading white space, reads an optional sign, digits and
\* an optional fraction, ignores whatever follows, and yields NaN when no
\* digit was read.
ParseFloat(s) ==
    LET t == TrimStart(s)
        signed == t # <<>> /\ Head(t) \in {"-", "+"}
        neg == t # <<>> /\ Head(t) = "-"
        body == IF signed THEN Tail(t) ELSE t
        ip == DigitPrefix(body)
        rest == SubSeq(body, Len(ip) + 1, Len(body))
        fp == IF rest # <<>> /\ Head(rest) = "." THEN DigitPrefix(Tail(rest)) ELSE <<>>
        mag == DigitsValue(ip) * Scale + FracValue(fp, Scale \div 10)
    IN  IF ip = <<>> /\ fp = <<>> THEN NaN
        ELSE IF neg THEN Fin(0 - mag) ELSE Fin(mag)

\* The decimal digits of a natural number.
RECURSIVE NatText(_)
NatText(n) ==
    IF n < 10 THEN <<DigitChar(n)>>
    ELSE NatText(n \div 10) \o <<DigitChar(n % 10)>>

\* The digits of a fraction f (units of 1/Scale, f < weight * 10), without
\* trailing zeros.
RECURSIVE FracText(_, _)
FracText(f, weight) ==
    IF f = 0 \/ weight = 0 THEN <<>>
    ELSE <<DigitChar(f \div weight)>> \o FracText(f % weight, weight \div 10)

\* Number-to-string conversion of a finite number.
NumberText(n) ==
    LET mag == IF n < 0 THEN 0 - n ELSE n
        ip == NatText(mag \div Scale)
        fp == FracText(mag % Scale, Scale \div 10)
    IN  (IF n < 0 THEN <<"-">> ELSE <<>>) \o ip
            \o (IF fp = <<>> THEN <<>> ELSE <<".">> \o fp)

\* ----------------------------------------------------------- raw values

Undefined == [t |-> "undefined"]
Null == [t |-> "null"]
Num(n) == [t |-> "number", v |-> n]
Str(s) == [t |-> "string", s |-> s]
Bool(b) == [t |-> "boolean", b |-> b]

\* ToString of a raw value, as parseFloat applies it to its argument.
ToText(x) ==
    CASE x.t = "string" -> x.s
      [] x.t = "number" -> NumberText(x.v)
      [] x.t = "boolean" -> IF x.b THEN <<"t", "r", "u", "e">> ELSE <<"f", "a", "l", "s", "e">>
      [] x.t = "null" -> <<"n", "u", "l", "l">>
      [] x.t = "undefined" -> <<"u", "n", "d", "e", "f", "i", "n", "e", "d">>

\* typeof x === "number", for a parsed coordinate
IsNumber(p) == "fin" \in DOMAIN p

\* !x
Falsy(x) ==
    \/ x.t \in {"undefined", "null"}
    \/ x.t = "string" /\ x.s = <<>>
    \/ x.t = "number" /\ x.v = 0
    \/ x.t = "boolean" /\ ~x.b

\* -------------------------------------------------------------- messages

MsgName == "Name is required and must be at least 3 characters long"
MsgAddress == "Address is required and must be at least 5 characters long"
MsgRequired == "Latitude and longitude are required and must not be empty"
MsgLatitude == "Latitude must be a valid number between -90 and 90"
MsgLongitude == "Longitude must be a valid number between -180 and 180"
MsgNoDb == "Database connection is not available"
MsgDuplicate == "School with the same name and address already exists"
MsgDbError == "Error checking for duplicates"

Invalid(m) == [isValid |-> FALSE, message |-> m]
Valid(lat, lon) == [isValid |-> TRUE, lat |-> lat, lon |-> lon]

\* ------------------------------------------------------------ validators

\* The "provided" test: undefined, null or the empty string.
CoordinateAbsent(x) == x = Undefined \/ x = Null \/ x = Str(<<>>)

\* typeof x === "string" ? parseFloat(x.trim()) : x
ParseCoordinate(x) ==
    IF x.t = "string" THEN ParseFloat(Trim(x.s))
    ELSE IF x.t = "number" THEN Fin(x.v)
    ELSE x

\* Variant of LatitudeInvalid with the bounds themselves refused.
LatitudeInvalidExclusive(lat) ==
    ~IsNumber(lat) \/ ~lat.fin \/ lat.v <= (0 - 90) * Scale \/ lat.v >= 90 * Scale

LatitudeInvalid(lat) ==
    ~IsNumber(lat) \/ ~lat.fin \/ lat.v < (0 - 90) * Scale \/ lat.v > 90 * Scale

LongitudeInvalid(lon) ==
    ~IsNumber(lon) \/ ~lon.fin \/ lon.v < (0 - 180) * Scale \/ lon.v > 180 * Scale

validateCoordinates(latitude, longitude) ==
    IF CoordinateAbsent(latitude) \/ CoordinateAbsent(longitude)
    THEN Invalid(MsgRequired)
    ELSE LET lat == ParseCoordinate(latitude)
             lon == ParseCoordinate(longitude)
         IN  IF LatitudeInvalid(lat) THEN Invalid(MsgLatitude)
             ELSE IF LongitudeInvalid(lon) THEN Invalid(MsgLongitude)
             ELSE Valid(lat.v, lon.v)

\* The pool imported from ../db is a connection pool with an execute method.
PoolHasExecute == TRUE

NameInvalid(name) ==
    Falsy(name) \/ name.t # "string" \/ Len(Trim(name.s)) < 3

AddressInvalid(address) ==
    Falsy(address) \/ address.t # "string" \/ Len(Trim(address.s)) < 5

\* Variant of validateSchoolDataSync that looks at the address before the name.
validateSchoolDataSyncAddressFirst(schoolData) ==
    IF AddressInvalid(schoolData.address) THEN Invalid(MsgAddress)
    ELSE IF NameInvalid(schoolData.name) THEN Invalid(MsgName)
    ELSE IF CoordinateAbsent(schoolData.latitude) \/ CoordinateAbsent(schoolData.longitude)
    THEN Invalid(MsgRequired)
    ELSE LET lat == ParseCoordinate(schoolData.latitude)
             lon == ParseCoordinate(schoolData.longitude)
         IN  IF LatitudeInvalid(lat) THEN Invalid(MsgLatitude)
             ELSE IF LongitudeInvalid(lon) THEN Invalid(MsgLongitude)
             ELSE Valid(lat.v, lon.v)

\* validateSchoolData up to its await: the checks made before the store is
\* asked.  A valid result here is the value returned once the duplicate
\* query has come back empty.
validateSchoolDataSync(schoolData) ==
    IF NameInvalid(schoolData.name) THEN Invalid(MsgName)
    ELSE IF AddressInvalid(schoolData.address) THEN Invalid(MsgAddress)
    ELSE IF CoordinateAbsent(schoolData.latitude) \/ CoordinateAbsent(schoolData.longitude)
    THEN Invalid(MsgRequired)
    ELSE LET lat == ParseCoordinate(schoolData.latitude)
             lon == ParseCoordinate(schoolData.longitude)
         IN  IF LatitudeInvalid(lat) THEN Invalid(MsgLatitude)
             ELSE IF LongitudeInvalid(lon) THEN Invalid(MsgLongitude)
             ELSE IF ~PoolHasExecute THEN Invalid(MsgNoDb)
             ELSE Valid(lat.v, lon.v)

\* ----------------------------------------------------------------- store

\* The store's comparison of two texts in "name = ?": exact, or blind to
\* trailing spaces under a PAD SPACE collation.
SqlEq(a, b) == IF padSpace THEN TrimEnd(a) = TrimEnd(b) ELSE a = b

\* SELECT id FROM schools WHERE name = ? AND address = ?
SelectByNameAddress(name, address) ==
    {i \in 1..Len(store) : SqlEq(store[i].name, name) /\ SqlEq(store[i].address, address)}

\* The row INSERT INTO schools (name, address, latitude, longitude) adds.
InsertedRow(body) ==
    [id |-> Len(store) + 1,
     name |-> body.name.s,
     address |-> body.address.s,
     latitude |-> ParseFloat(ToText(body.latitude)).v,
     longitude |-> ParseFloat(ToText(body.longitude)).v]

\* ------------------------------------------------------------- requests

Req == 1..NumReq

NoReq == [op |-> "none"]
NoResult == [isValid |-> FALSE, message |-> "pending"]
NoRes == [status |-> 0]

InFlight(r) == pc[r] \notin {"idle", "done"}

BadRequest(v) == [status |-> 400, message |-> "Validation failed", error |-> v.message]

ServerError(e) == [status |-> 500, message |-> "Internal server error", error |-> e]

Created(row) == [status |-> 201, message |-> "School added successfully", data |-> row]

\* addSchool from its entry to the first await it suspends at: the
\* synchronous checks of validateSchoolData, then either the 400 answer or
\* the duplicate query sent to the store.
AddSchoolBegin(r, body) ==
    /\ pc[r] = "idle"
    /\ req' = [req EXCEPT ![r] = [op |-> "add", body |-> body]]
    /\ overlapped' = (overlapped \/ \E q \in Req : q # r /\ InFlight(q))
    /\ LET v == validateSchoolDataSync(body)
       IN  IF ~v.isValid
           THEN /\ validation' = [validation EXCEPT ![r] = v]
                /\ res' = [res EXCEPT ![r] = BadRequest(v)]
                /\ pc' = [pc EXCEPT ![r] = "done"]
                /\ UNCHANGED queried
           ELSE /\ queried' = [queried EXCEPT ![r] = TRUE]
                /\ pc' = [pc EXCEPT ![r] = "awaitExecute"]
                /\ UNCHANGED <<validation, res>>
    /\ UNCHANGED <<store, padSpace, fetched>>

\* Variant of AddSchoolAfterExecute that sends the INSERT without looking at
\* the validation result.
AddSchoolAfterExecuteUnchecked(r, ok) ==
    /\ pc[r] = "awaitExecute"
    /\ LET body == req[r].body
           rows == SelectByNameAddress(Trim(body.name.s), Trim(body.address.s))
           v == IF ~ok THEN Invalid(MsgDbError)
                ELSE IF rows # {} THEN Invalid(MsgDuplicate)
                ELSE validateSchoolDataSync(body)
       IN  validation' = [validation EXCEPT ![r] = v]
    /\ pc' = [pc EXCEPT ![r] = "awaitInsert"]
    /\ UNCHANGED <<store, padSpace, req, res, queried, fetched, overlapped>>

\* Variant of AddSchoolAfterExecute that reports a throwing store as a
\* duplicate.
AddSchoolAfterExecuteThrowAsDuplicate(r, ok) ==
    /\ pc[r] = "awaitExecute"
    /\ LET body == req[r].body
           rows == SelectByNameAddress(Trim(body.name.s), Trim(body.address.s))
           v == IF ~ok \/ rows # {} THEN Invalid(MsgDuplicate)
                ELSE validateSchoolDataSync(body)
       IN  /\ validation' = [validation EXCEPT ![r] = v]
           /\ IF ~v.isValid
              THEN /\ res' = [res EXCEPT ![r] = BadRequest(v)]
                   /\ pc' = [pc EXCEPT ![r] = "done"]
              ELSE /\ pc' = [pc EXCEPT ![r] = "awaitInsert"]
                   /\ UNCHANGED res
    /\ UNCHANGED <<store, padSpace, req, queried, fetched, overlapped>>

\* The duplicate query answers (ok) or throws (~ok); validateSchoolData
\* returns, and addSchool answers 400 or sends the INSERT.
AddSchoolAfterExecute(r, ok) ==
    /\ pc[r] = "awaitExecute"
    /\ LET body == req[r].body
           rows == SelectByNameAddress(Trim(body.name.s), Trim(body.address.s))
           v == IF ~ok THEN Invalid(MsgDbError)
                ELSE IF rows # {} THEN Invalid(MsgDuplicate)
                ELSE validateSchoolDataSync(body)
       IN  /\ validation' = [validation EXCEPT ![r] = v]
           /\ IF ~v.isValid
              THEN /\ res' = [res EXCEPT ![r] = BadRequest(v)]
                   /\ pc' = [pc EXCEPT ![r] = "done"]
              ELSE /\ pc' = [pc EXCEPT ![r] = "awaitInsert"]
                   /\ UNCHANGED res
    /\ UNCHANGED <<store, padSpace, req, queried, fetched, overlapped>>

\* Variant of AddSchoolAfterInsert that looks for the key once more when the
\* INSERT is carried out and refuses a second row.
AddSchoolAfterInsertRechecked(r, ok) ==
    /\ pc[r] = "awaitInsert"
    /\ LET body == req[r].body
           rows == SelectByNameAddress(Trim(body.name.s), Trim(body.address.s))
       IN  IF ok /\ rows = {}
           THEN /\ store' = Append(store, InsertedRow(body))
                /\ res' = [res EXCEPT ![r] = Created(InsertedRow(body))]
           ELSE /\ res' = [res EXCEPT ![r] =
                       IF ok THEN BadRequest(Invalid(MsgDuplicate))
                       ELSE ServerError("An unexpected error occurred. Please try again later.")]
                /\ UNCHANGED store
    /\ pc' = [pc EXCEPT ![r] = "done"]
    /\ UNCHANGED <<padSpace, req, validation, queried, fetched, overlapped>>

\* The INSERT is carried out (ok) or throws (~ok); addSchool answers 201
\* with the new row or 500.
AddSchoolAfterInsert(r, ok) ==
    /\ pc[r] = "awaitInsert"
    /\ IF ok
       THEN /\ store' = Append(store, InsertedRow(req[r].body))
            /\ res' = [res EXCEPT ![r] = Created(InsertedRow(req[r].body))]
       ELSE /\ res' = [res EXCEPT ![r] =
                   ServerError("An unexpected error occurred. Please try again later.")]
            /\ UNCHANGED store
    /\ pc' = [pc EXCEPT ![r] = "done"]
    /\ UNCHANGED <<padSpace, req, validation, queried, fetched, overlapped>>

\* ------------------------------------------------- create-school inputs

Oak == <<"O", "a", "k">>
Elm == <<"E", "l", "m">>
MainSt == <<"1", " ", "M", "a", "i", "n">>

Body(name, address, latitude, longitude) ==
    [name |-> name, address |-> address, latitude |-> latitude, longitude |-> longitude]

\* Request bodies of the create-school model: one logical school under
\* different white space and coordinates, a second school, and one body per
\* kind of rejected input.
Bodies ==
    {Body(Str(Oak), Str(MainSt), Num(0), Num(0)),
     Body(Str(<<" ">> \o Oak), Str(MainSt), Str(<<"1">>), Str(<<"1">>)),
     Body(Str(<<" ">> \o Oak \o <<" ">>), Str(MainSt \o <<" ">>), Num(2 * Scale), Num(0)),
     Body(Str(Elm), Str(MainSt), Num(0), Num(0)),
     Body(Str(<<"O", "a", " ">>), Str(MainSt), Num(0), Num(0)),
     Body(Str(Oak), Str(<<"M", "a", "i", "n">>), Num(0), Num(0)),
     Body(Str(Oak), Str(MainSt), Undefined, Num(0)),
     Body(Str(Oak), Str(MainSt), Str(<<"9", "1">>), Num(0))}

Init ==
    /\ store = <<>>
    /\ padSpace \in BOOLEAN
    /\ pc = [r \in Req |-> "idle"]
    /\ req = [r \in Req |-> NoReq]
    /\ validation = [r \in Req |-> NoResult]
    /\ res = [r \in Req |-> NoRes]
    /\ queried = [r \in Req |-> FALSE]
    /\ fetched = [r \in Req |-> <<>>]
    /\ overlapped = FALSE

Next ==
    \E r \in Req :
        \/ \E body \in Bodies : AddSchoolBegin(r, body)
        \/ \E ok \in BOOLEAN : AddSchoolAfterExecute(r, ok)
        \/ \E ok \in BOOLEAN : AddSchoolAfterInsert(r, ok)

Spec == Init /\ [][Next]_vars

\* ------------------------------------------------ create-school properties

\* The logical key of a stored row.
TrimmedKey(row) == <<Trim(row.name), Trim(row.address)>>

\* C1: as long as the create-school requests ran one at a time, no two
\* stored rows have the same (trimmed name, trimmed address) pair.
C1_SequentialKeysUnique ==
    ~overlapped =>
        \A i, j \in 1..Len(store) :
            i # j => TrimmedKey(store[i]) # TrimmedKey(store[j])

\* C2: nothing is checked again when the INSERT is carried out: the step
\* that ends a request waiting for its INSERT adds that request's row to the
\* store whatever the store holds by then, unless the store itself failed.
C2_InsertNotRechecked ==
    [][\A r \in Req :
          (pc[r] = "awaitInsert" /\ pc'[r] = "done" /\ res'[r].status # 500)
              => store' = Append(store, InsertedRow(req[r].body))]_vars

\* Two overlapping requests for one (name, address) pair both passed the
\* duplicate check and both inserted.
C2_Witness ==
    /\ overlapped
    /\ \E r1, r2 \in Req :
          /\ r1 # r2
          /\ res[r1].status = 201 /\ res[r2].status = 201
          /\ validation[r1].isValid /\ validation[r2].isValid
          /\ res[r1].data.id # res[r2].data.id
          /\ res[r1].data.name = res[r2].data.name
          /\ res[r1].data.address = res[r2].data.address
    /\ \E i, j \in 1..Len(store) :
          i # j /\ store[i].name = store[j].name /\ store[i].address = store[j].address

\* C5: a request whose validation fails is answered with an error and leaves
\* the store as it was; the store grows only by the row of a request whose
\* validation had returned success.
C5_FailedValidationLeavesStore ==
    /\ [](\A r \in Req :
            /\ (pc[r] = "done" /\ ~validation[r].isValid) => res[r].status \in {400, 500}
            /\ res[r].status = 201 => validation[r].isValid)
    /\ [][/\ \A r \in Req :
               (validation'[r] # validation[r] /\ ~validation'[r].isValid)
                   => (store' = store /\ res'[r].status = 400)
          /\ store' # store =>
               \E r \in Req :
                   /\ validation[r].isValid
                   /\ pc[r] = "awaitInsert"
                   /\ store' = Append(store, InsertedRow(req[r].body))]_vars

\* A duplicate submission was rejected and the stored row is still alone.
C5_Witness ==
    \E r \in Req :
        /\ res[r].status = 400
        /\ validation[r].message = MsgDuplicate
        /\ Len(store) = 1

\* The failures of validateSchoolData that reject the input.
InputFailures == {MsgName, MsgAddress, MsgRequired, MsgLatitude, MsgLongitude, MsgDuplicate}

\* C8: when the duplicate query throws, validation fails with a message of
\* its own, none of the rejected-input messages, and create-school hands
\* that message to its caller.
C8_StoreFailureDistinct ==
    [][\A r \in Req :
          AddSchoolAfterExecute(r, FALSE) =>
              /\ ~validation'[r].isValid
              /\ validation'[r].message = MsgDbError
              /\ validation'[r].message \notin InputFailures
              /\ res'[r].error = validation'[r].message
              /\ store' = store]_vars

\* A request whose duplicate query threw has been answered.
C8_Witness ==
    \E r \in Req :
        /\ pc[r] = "done"
        /\ queried[r]
        /\ validation[r] = Invalid(MsgDbError)
        /\ res[r].error = MsgDbError

\* ------------------------------------------------ validateCoordinates alone

\* A call of validateCoordinates on its own.
ValidateCoordinatesCall(r, latitude, longitude) ==
    /\ pc[r] = "idle"
    /\ req' = [req EXCEPT ![r] = [op |-> "coords", latitude |-> latitude, longitude |-> longitude]]
    /\ validation' = [validation EXCEPT ![r] = validateCoordinates(latitude, longitude)]
    /\ pc' = [pc EXCEPT ![r] = "done"]
    /\ UNCHANGED <<store, padSpace, res, queried, fetched, overlapped>>

\* Coordinate texts.
Blank == <<" ", " ">>
T90 == <<"9", "0">>
T91 == <<"9", "1">>
T180 == <<"1", "8", "0">>
T181 == <<"1", "8", "1">>
Minus(t) == <<"-">> \o t

\* Raw values that are not a number: absent, null, empty, blank, junk.
NonNumericCoords ==
    {Undefined, Null, Str(<<>>), Str(Blank), Str(<<"a", "b", "c">>), Bool(TRUE)}

\* Numbers on, inside and outside the bounds of both ranges, and their texts.
NumberCoords ==
    {Num(0), Num(90 * Scale), Num((0 - 90) * Scale), Num(91 * Scale),
     Num(180 * Scale), Num((0 - 180) * Scale), Num((0 - 181) * Scale),
     Num(200 * Scale), Num(0 - (100 * Scale + Scale \div 2)),
     Num(45 * Scale + Scale \div 4)}

TextCoords ==
    {Str(NumberText(x.v)) : x \in NumberCoords}
        \cup {Str(<<" ">> \o T90 \o <<" ">>), Str(T90 \o <<".", "0">>),
              Str(<<"+">> \o T180), Str(<<"9", "0", ".", "0", "0", "0", "0", "1">>)}

RawCoords == NonNumericCoords \cup NumberCoords \cup TextCoords

InitCoord == Init

NextCoord ==
    \E latitude, longitude \in RawCoords :
        ValidateCoordinatesCall(1, latitude, longitude)

SpecCoord == InitCoord /\ [][NextCoord]_vars

\* A raw coordinate that is absent, null, or a text empty after trimming.
BlankCoordinate(x) ==
    x.t \in {"undefined", "null"} \/ (x.t = "string" /\ Trim(x.s) = <<>>)

\* C4: validateCoordinates fails with the required-field message, and not
\* with a latitude or longitude message, whenever latitude or longitude is
\* absent, null or a text that is empty after trimming.
C4_BlankIsMissingField ==
    \A r \in Req :
        (/\ pc[r] = "done"
         /\ req[r].op = "coords"
         /\ BlankCoordinate(req[r].latitude) \/ BlankCoordinate(req[r].longitude))
            => validation[r] = Invalid(MsgRequired)

\* A text that is a decimal numeral once trimmed: sign, digits, fraction.
IsNumericText(s) ==
    LET t == Trim(s)
        body == IF t # <<>> /\ Head(t) \in {"-", "+"} THEN Tail(t) ELSE t
        ip == DigitPrefix(body)
        rest == SubSeq(body, Len(ip) + 1, Len(body))
    IN  /\ ip # <<>>
        /\ \/ rest = <<>>
           \/ /\ Head(rest) = "."
              /\ Len(rest) > 1
              /\ DigitPrefix(Tail(rest)) = Tail(rest)

IsNumeric(x) == x.t = "number" \/ (x.t = "string" /\ IsNumericText(x.s))

\* The number a numeric raw value stands for.
NumericValue(x) == IF x.t = "number" THEN x.v ELSE ParseFloat(x.s).v

\* C9: for present numeric latitude and longitude, validateCoordinates
\* succeeds exactly when -90 <= latitude <= 90 and -180 <= longitude <= 180,
\* returns the values unchanged, fails with the latitude (longitude)
\* range message otherwise, and treats a number and its text alike.
C9_RangeInclusive ==
    \A r \in Req :
        (/\ pc[r] = "done"
         /\ req[r].op = "coords"
         /\ IsNumeric(req[r].latitude) /\ IsNumeric(req[r].longitude))
            => LET lat == NumericValue(req[r].latitude)
                   lon == NumericValue(req[r].longitude)
                   latIn == (0 - 90) * Scale <= lat /\ lat <= 90 * Scale
                   lonIn == (0 - 180) * Scale <= lon /\ lon <= 180 * Scale
                   v == validation[r]
               IN  /\ v.isValid <=> (latIn /\ lonIn)
                   /\ v.isValid => (v.lat = lat /\ v.lon = lon)
                   /\ ~latIn => v = Invalid(MsgLatitude)
                   /\ (latIn /\ ~lonIn) => v = Invalid(MsgLongitude)
                   /\ (req[r].latitude.t = "number" /\ req[r].longitude.t = "number")
                         => v = validateCoordinates(Str(NumberText(lat)), Str(NumberText(lon)))

\* A latitude on its lower bound, given as a number, and a longitude on its
\* upper bound, given as a text, were accepted and returned unchanged.
C9_Witness ==
    \E r \in Req :
        /\ pc[r] = "done" /\ req[r].op = "coords"
        /\ req[r].latitude = Num((0 - 90) * Scale) /\ req[r].longitude = Str(T180)
        /\ validation[r] = Valid((0 - 90) * Scale, 180 * Scale)

\* ------------------------------------------------- validateSchoolData alone

NameValues ==
    {Undefined, Num(5 * Scale), Str(<<>>), Str(<<"O", "a">>), Str(<<" ", "O", "a", " ">>),
     Str(Oak), Str(<<" ">> \o Oak \o <<" ">>), Str(Elm)}

AddressValues ==
    {Null, Str(<<"M", "a", "i", "n">>), Str(<<" ", "M", "a", "i", "n", " ">>),
     Str(MainSt), Str(<<"2", " ", "M", "a", "i", "n">>)}

CoordValues ==
    {Undefined, Null, Str(<<>>), Str(Blank), Str(<<"a", "b", "c">>), Bool(TRUE),
     Num(0), Num(91 * Scale), Str(T90), Str(Minus(T181)), Num(180 * Scale)}

WideBodies ==
    {Body(n, a, la, lo) : n \in NameValues, a \in AddressValues,
                          la \in CoordValues, lo \in CoordValues}

\* The store holds nothing, or the row an earlier create-school request for
\* ("Oak", "1 Main") or for ("Oak ", "1 Main") at (0, 0) has left.
InitValidate ==
    /\ store \in {<<>>,
                  <<[id |-> 1, name |-> Oak, address |-> MainSt,
                     latitude |-> 0, longitude |-> 0]>>,
                  <<[id |-> 1, name |-> Oak \o <<" ">>, address |-> MainSt,
                     latitude |-> 0, longitude |-> 0]>>}
    /\ padSpace \in BOOLEAN
    /\ pc = [r \in Req |-> "idle"]
    /\ req = [r \in Req |-> NoReq]
    /\ validation = [r \in Req |-> NoResult]
    /\ res = [r \in Req |-> NoRes]
    /\ queried = [r \in Req |-> FALSE]
    /\ fetched = [r \in Req |-> <<>>]
    /\ overlapped = FALSE

NextValidate ==
    \/ pc[1] = "idle" /\ \E body \in WideBodies : AddSchoolBegin(1, body)
    \/ \E ok \in BOOLEAN : AddSchoolAfterExecute(1, ok)
    \/ \E ok \in BOOLEAN : AddSchoolAfterInsert(1, ok)

SpecValidate == InitValidate /\ [][NextValidate]_vars

\* The five checks, each on its own.
NameCheckFails(b) == NameInvalid(b.name)
AddressCheckFails(b) == AddressInvalid(b.address)
PresenceCheckFails(b) == CoordinateAbsent(b.latitude) \/ CoordinateAbsent(b.longitude)
RangeCheckFails(b) ==
    LatitudeInvalid(ParseCoordinate(b.latitude)) \/ LongitudeInvalid(ParseCoordinate(b.longitude))

\* C3: the failure validateSchoolData reports is the one of the first check
\* that fails in the order name, address, coordinates present, coordinates
\* in range, duplicate; and the store is asked for a duplicate exactly when
\* the four checks before it passed.
C3_FirstFailureInOrder ==
    \A r \in Req :
        (req[r].op = "add" /\ pc[r] # "idle") =>
            LET b == req[r].body
                early == NameCheckFails(b) \/ AddressCheckFails(b)
                            \/ PresenceCheckFails(b) \/ RangeCheckFails(b)
                v == validation[r]
            IN  /\ queried[r] <=> ~early
                /\ early => pc[r] = "done" /\ ~v.isValid
                /\ NameCheckFails(b) => v.message = MsgName
                /\ (~NameCheckFails(b) /\ AddressCheckFails(b)) => v.message = MsgAddress
                /\ (~NameCheckFails(b) /\ ~AddressCheckFails(b) /\ PresenceCheckFails(b))
                      => v.message = MsgRequired
                /\ (~NameCheckFails(b) /\ ~AddressCheckFails(b) /\ ~PresenceCheckFails(b)
                        /\ RangeCheckFails(b))
                      => v.message \in {MsgLatitude, MsgLongitude}
                /\ (pc[r] = "done" /\ ~v.isValid /\ ~early)
                      => v.message \in {MsgDuplicate, MsgDbError}

\* A submission with a bad address, a missing longitude and an out-of-range
\* latitude was answered with the address failure alone, the store not asked.
C3_Witness ==
    \E r \in Req :
        /\ pc[r] = "done"
        /\ req[r].op = "add"
        /\ req[r].body = Body(Str(Oak), Str(<<"M", "a", "i", "n">>), Num(91 * Scale), Undefined)
        /\ validation[r] = Invalid(MsgAddress)
        /\ ~queried[r]

\* -------------------------------------------------------------- distance

\* Earth's radius in kilometers.
R == 6371

\* Math.PI / 180, in units of 10^-7.
RadiansPerDegree == 174533

Abs(x) == IF x < 0 THEN 0 - x ELSE x

\* The central angle c of the haversine formula, as degrees in units of
\* 1/Scale, on the two great circles where it has a closed form: along a
\* meridian (lon1 = lon2: a = sin^2(dLat/2), c = |dLat|) and along the equator
\* (lat1 = lat2 = 0: a = sin^2(dLon/2), c = |dLon|, or 360 degrees - |dLon|
\* past 180 degrees, as atan2 takes the square roots of a and 1 - a).
CentralAngle(lat1, lon1, lat2, lon2) ==
    CASE lon1 = lon2 -> Abs(lat2 - lat1)
      [] lon1 # lon2 /\ lat1 = 0 /\ lat2 = 0 ->
            IF Abs(lon2 - lon1) > 180 * Scale
            THEN 360 * Scale - Abs(lon2 - lon1)
            ELSE Abs(lon2 - lon1)

\* R * c in millimeters: the angle times R * pi / 180, the product taken in
\* two parts to stay within 32 bits.
calculateDistance(lat1, lon1, lat2, lon2) ==
    LET c == CentralAngle(lat1, lon1, lat2, lon2)
        umPerUnit == (R * RadiansPerDegree) \div 1000
    IN  (c \div 1000) * umPerUnit + ((c % 1000) * umPerUnit) \div 1000

\* distance.toFixed(2): kilometers with two decimals, the nearer hundredth,
\* a half going up.
ToFixed2(mm) ==
    LET h == (mm + 5000) \div 10000
    IN  NatText(h \div 100) \o <<".">> \o <<DigitChar((h % 100) \div 10), DigitChar(h % 10)>>

\* schools.map(...): each row with its rounded distance attached.
RECURSIVE WithDistance(_, _, _)
WithDistance(userLat, userLon, schools) ==
    IF schools = <<>> THEN <<>>
    ELSE LET school == Head(schools)
             distance == calculateDistance(userLat, userLon, school.latitude, school.longitude)
         IN  <<[id |-> school.id, name |-> school.name, address |-> school.address,
                latitude |-> school.latitude, longitude |-> school.longitude,
                distance |-> ParseFloat(ToFixed2(distance)).v]>>
                 \o WithDistance(userLat, userLon, Tail(schools))

\* Variant of InsertByDistance that puts x before an entry it compares equal to.
RECURSIVE InsertByDistanceUnstable(_, _)
InsertByDistanceUnstable(sorted, x) ==
    IF sorted = <<>> THEN <<x>>
    ELSE IF Head(sorted).distance - x.distance >= 0 THEN <<x>> \o sorted
    ELSE <<Head(sorted)>> \o InsertByDistanceUnstable(Tail(sorted), x)

\* One step of the stable sort under (a, b) => a.distance - b.distance: x
\* goes before the first entry that compares greater than it.
RECURSIVE InsertByDistance(_, _)
InsertByDistance(sorted, x) ==
    IF sorted = <<>> THEN <<x>>
    ELSE IF Head(sorted).distance - x.distance > 0 THEN <<x>> \o sorted
    ELSE <<Head(sorted)>> \o InsertByDistance(Tail(sorted), x)

\* Array.prototype.sort, which is stable.
RECURSIVE SortByDistance(_)
SortByDistance(entries) ==
    IF entries = <<>> THEN <<>>
    ELSE InsertByDistance(SortByDistance(SubSeq(entries, 1, Len(entries) - 1)),
                          entries[Len(entries)])

\* Rows with their unrounded distance attached.
RECURSIVE WithUnroundedDistance(_, _, _)
WithUnroundedDistance(userLat, userLon, schools) ==
    IF schools = <<>> THEN <<>>
    ELSE LET school == Head(schools)
         IN  <<[id |-> school.id, name |-> school.name, address |-> school.address,
                latitude |-> school.latitude, longitude |-> school.longitude,
                distance |-> calculateDistance(userLat, userLon,
                                               school.latitude, school.longitude)]>>
                 \o WithUnroundedDistance(userLat, userLon, Tail(schools))

\* Entries with their distance rounded to two decimals.
RECURSIVE RoundDistances(_)
RoundDistances(entries) ==
    IF entries = <<>> THEN <<>>
    ELSE <<[Head(entries) EXCEPT !.distance = ParseFloat(ToFixed2(@)).v]>>
             \o RoundDistances(Tail(entries))

\* Variant of RankSchools that sorts on the unrounded distance and rounds
\* afterwards.
RankSchoolsSortFirst(userLat, userLon, schools) ==
    RoundDistances(SortByDistance(WithUnroundedDistance(userLat, userLon, schools)))

\* The ranked list: distances attached, then sorted.
RankSchools(userLat, userLon, schools) ==
    SortByDistance(WithDistance(userLat, userLon, schools))

\* Variant of ListSchoolsResponse that cuts the list to one entry when the
\* request carries a limit.
ListSchoolsResponseLimited(query, v, schools) ==
    LET ranked == RankSchools(v.lat, v.lon, schools)
        cut == IF query.limit = Undefined \/ ranked = <<>> THEN ranked ELSE SubSeq(ranked, 1, 1)
    IN  [status |-> 200,
         message |-> "Schools fetched and sorted by proximity successfully",
         userLocation |-> [latitude |-> v.lat, longitude |-> v.lon],
         totalSchools |-> Len(cut),
         schools |-> cut]

\* The 200 answer of listSchools.
ListSchoolsResponse(query, v, schools) ==
    [status |-> 200,
     message |-> "Schools fetched and sorted by proximity successfully",
     userLocation |-> [latitude |-> v.lat, longitude |-> v.lon],
     totalSchools |-> Len(RankSchools(v.lat, v.lon, schools)),
     schools |-> RankSchools(v.lat, v.lon, schools)]

\* listSchools from its entry to its await: the coordinates are validated,
\* then either the 400 answer or the SELECT of all rows sent to the store.
ListSchoolsBegin(r, query) ==
    /\ pc[r] = "idle"
    /\ req' = [req EXCEPT ![r] = [op |-> "list", query |-> query]]
    /\ LET v == validateCoordinates(query.latitude, query.longitude)
       IN  /\ validation' = [validation EXCEPT ![r] = v]
           /\ IF ~v.isValid
              THEN /\ res' = [res EXCEPT ![r] = BadRequest(v)]
                   /\ pc' = [pc EXCEPT ![r] = "done"]
              ELSE /\ pc' = [pc EXCEPT ![r] = "awaitFetch"]
                   /\ UNCHANGED res
    /\ UNCHANGED <<store, padSpace, queried, fetched, overlapped>>

\* The SELECT answers with all rows (ok) or throws (~ok); listSchools ranks
\* the rows and answers 200, or answers 500.
ListSchoolsAfterFetch(r, ok) ==
    /\ pc[r] = "awaitFetch"
    /\ IF ok
       THEN /\ fetched' = [fetched EXCEPT ![r] = store]
            /\ res' = [res EXCEPT ![r] = ListSchoolsResponse(req[r].query, validation[r], store)]
       ELSE /\ res' = [res EXCEPT ![r] =
                   ServerError("Failed to fetch schools. Please try again later.")]
            /\ UNCHANGED fetched
    /\ pc' = [pc EXCEPT ![r] = "done"]
    /\ UNCHANGED <<store, padSpace, req, validation, queried, overlapped>>

\* ---------------------------------------------------- list-schools inputs

\* Longitudes of stored schools, all on the equator: 0, 1 and 2 degrees, and
\* one hundred-thousandth of a degree short of 1 degree.
SchoolLongitudes == {0, Scale, 2 * Scale, Scale - 1}

SchoolRow(i, lon) ==
    [id |-> i, name |-> <<"S", "c", "h">> \o NatText(i), address |-> MainSt,
     latitude |-> 0, longitude |-> lon]

\* The stores of up to MaxSchools rows that create-school can have built.
Stores ==
    UNION {{[i \in 1..n |-> SchoolRow(i, lons[i])] : lons \in [1..n -> SchoolLongitudes]}
              : n \in 0..MaxSchools}

Queries ==
    [latitude : {Undefined, Str(<<>>), Str(<<"a">>), Str(T91), Str(<<"0">>), Str(<<" ", "0">>)},
     longitude : {Undefined, Str(<<"0">>), Str(<<"1">>), Str(<<"-", "0", ".", "5">>)},
     limit : {Undefined, Str(<<"1">>)},
     radius : {Undefined, Str(<<"5", "0">>)}]

InitList ==
    /\ store \in Stores
    /\ padSpace = FALSE
    /\ pc = [r \in Req |-> "idle"]
    /\ req = [r \in Req |-> NoReq]
    /\ validation = [r \in Req |-> NoResult]
    /\ res = [r \in Req |-> NoRes]
    /\ queried = [r \in Req |-> FALSE]
    /\ fetched = [r \in Req |-> <<>>]
    /\ overlapped = FALSE

NextList ==
    \/ pc[1] = "idle" /\ \E query \in Queries : ListSchoolsBegin(1, query)
    \/ \E ok \in BOOLEAN : ListSchoolsAfterFetch(1, ok)

SpecList == InitList /\ [][NextList]_vars

\* ------------------------------------------------ list-schools properties

\* r was answered with a ranked list.
Ranked(r) == pc[r] = "done" /\ req[r].op = "list" /\ res[r].status = 200

\* The place of the row with this id in a sequence of rows.
PlaceOf(rows, id) == CHOOSE i \in 1..Len(rows) : rows[i].id = id

\* The fixture rows: id 1 at 2 degrees, id 2 at 1 degree, id 3 at 0 degrees.
FixtureStore == <<SchoolRow(1, 2 * Scale), SchoolRow(2, Scale), SchoolRow(3, 0)>>

\* C6: the returned list is ascending in the attached distance, entries with
\* equal distance keep the order they were fetched in, and the fixture
\* ranks as id 3 (0.00 km), id 2 (111.19 km), id 1 (222.39 km).
C6_AscendingStable ==
    \A r \in Req :
        Ranked(r) =>
            LET out == res[r].schools
            IN  /\ \A i, j \in 1..Len(out) :
                      i < j =>
                          /\ out[i].distance <= out[j].distance
                          /\ out[i].distance = out[j].distance
                                => PlaceOf(fetched[r], out[i].id) < PlaceOf(fetched[r], out[j].id)
                /\ (fetched[r] = FixtureStore /\ validation[r] = Valid(0, 0))
                      => /\ [i \in 1..3 |-> out[i].id] = <<3, 2, 1>>
                         /\ [i \in 1..3 |-> out[i].distance] = <<0, 11119 * 1000, 22239 * 1000>>

\* The fixture was ranked against (0, 0).
C6_Witness ==
    \E r \in Req :
        /\ Ranked(r)
        /\ fetched[r] = FixtureStore
        /\ validation[r] = Valid(0, 0)
        /\ Len(res[r].schools) = 3

\* A row without its distance.
StoredPart(e) ==
    [id |-> e.id, name |-> e.name, address |-> e.address,
     latitude |-> e.latitude, longitude |-> e.longitude]

Unrounded(r, row) ==
    calculateDistance(validation[r].lat, validation[r].lon, row.latitude, row.longitude)

\* The distance of a row as attached to it: rounded to two decimals.
Rounded(r, row) == ParseFloat(ToFixed2(Unrounded(r, row))).v

\* C10 as stated: of two rows at different unrounded distances, the nearer
\* one comes first in the returned list.
C10_SortedByUnrounded ==
    \A r \in Req :
        Ranked(r) =>
            \A i, j \in 1..Len(res[r].schools) :
                Unrounded(r, res[r].schools[i]) < Unrounded(r, res[r].schools[j]) => i < j

\* C10 amended: the list is sorted after rounding.  Of two rows whose
\* rounded distances differ, the nearer one comes first; two rows whose
\* distances round to the same value come in store order, the farther one
\* first if it is first in the store.
C10_SortedByRounded ==
    \A r \in Req :
        Ranked(r) =>
            LET out == res[r].schools
            IN  \A i, j \in 1..Len(out) :
                    /\ out[i].distance = Rounded(r, out[i])
                    /\ Rounded(r, out[i]) < Rounded(r, out[j]) => i < j
                    /\ (/\ Rounded(r, out[i]) = Rounded(r, out[j])
                        /\ PlaceOf(fetched[r], out[i].id) < PlaceOf(fetched[r], out[j].id))
                          => i < j

\* Two rows at different distances that round to the same value were
\* returned with the farther one first, as they are stored.
C10_Witness ==
    \E r \in Req :
        /\ Ranked(r)
        /\ \E i, j \in 1..Len(res[r].schools) :
              /\ i < j
              /\ Unrounded(r, res[r].schools[i]) > Unrounded(r, res[r].schools[j])
              /\ res[r].schools[i].distance = res[r].schools[j].distance
              /\ res[r].schools[i].distance > 0

====
